---- MODULE Spec2Model ----
(***************************************************************************)
(* Model of the first-response mailer (auto_reply.py, sheets.py,          *)
(* mailer.py, config.py): main's account loop, process_account's          *)
(* applicant loop, send_email's and mark_as_sent's retry loops, and the    *)
(* pure helpers they call.                                                 *)
(*                                                                         *)
(* A spreadsheet cell (a Python str) is a record [k, v]: k is the shape    *)
(* of the text ("" empty, " " whitespace only, "text", "num", or the       *)
(* date layout it is written in) and v its content (an id for text, the    *)
(* number in tenths for "num", the clock tick for a date).                 *)
(* Column names: marker = メール送信済, date = 応募日時, email =             *)
(* メールアドレス, age = 年齢, client = クライアント名.                        *)
(*                                                                         *)
(* All accounts point at one applicant spreadsheet (the account registry   *)
(* allows it), so a later account of a run reads what an earlier one left, *)
(* as a later run does.                                                    *)
(***************************************************************************)
EXTENDS Integers, Sequences, FiniteSets, TLC

\* ---------------------------------------------------------------- bounds
MaxRows == 2
MaxCalls == 2
MaxAccounts == 2
TicksPerDay == 2
MaxDay == 3
MaxTemplateLen == 2
MaxHintLen == 2
MaxTplRows == 6

\* ------------------------------------------------------ program constants
SEARCH_DAYS == 1
SMTP_MAX_RETRIES == 3
SMTP_RETRY_INTERVAL == 5
SHEETS_API_MAX_RETRIES == 3
SHEETS_API_RETRY_INTERVAL == 5
SMTP_DEFAULT_SERVER == "smtp.muumuu-mail.com"
SMTP_DEFAULT_PORT == 587
HEADER_SCAN_ROWS == 5

\* ------------------------------------------------------------ Python values
None == [some |-> FALSE, v |-> 0]
Some(x) == [some |-> TRUE, v |-> x]
NoneStr == [some |-> FALSE, v |-> <<>>]

Cell(kind, val) == [k |-> kind, v |-> val]
Empty == Cell("", 0)
Blank == Cell(" ", 0)
Text(id) == Cell("text", id)
Num(tenths) == Cell("num", tenths)

\* text with white space around it
Padded(id) == Cell("padded", id)

\* a cell holding a column label
Label(name) == Cell(name, 0)

\* str.strip(): whitespace-only text becomes the empty string
Strip(c) == IF c.k = " " THEN Empty ELSE IF c.k = "padded" THEN Text(c.v) ELSE c

\* truth value of a str
Truthy(c) == c.k # ""

\* list.index(name) as a 0-based position, -1 for ValueError
IndexOf(seq, name) ==
  IF \E i \in 1..Len(seq) : seq[i] = name
  THEN (CHOOSE i \in 1..Len(seq) : seq[i] = name /\ \A j \in 1..(i-1) : seq[j] # name) - 1
  ELSE -1

\* ------------------------------------------------------------- sheets.py
DateFormats == << "Y/m/d H:M:S", "Y/m/d H:M", "Y-m-d H:M:S", "Y-m-d H:M", "Y/m/d", "Y-m-d" >>

RECURSIVE ParseDateFrom(_, _)
ParseDateFrom(date_str, i) ==
  IF i > Len(DateFormats) THEN None
  ELSE IF date_str.k = DateFormats[i] THEN Some(date_str.v)
  ELSE ParseDateFrom(date_str, i + 1)

_parse_date(date_str) == ParseDateFrom(date_str, 1)

\* int(float(s)): truncation toward zero of a decimal given in tenths
_parse_age(age_value) ==
  IF Strip(age_value).k = "" THEN None
  ELSE IF age_value.k # "num" THEN None
  ELSE IF age_value.v >= 0 THEN Some(age_value.v \div 10)
  ELSE Some(-((-age_value.v) \div 10))

\* whitespace runs collapse and the ends are trimmed
_normalize_name(name) == Strip(name)

\* datetime.now(JST).strftime('%Y/%m/%d %H:%M:%S')
NowStr(t) == Cell("Y/m/d H:M:S", t)

\* now.replace(hour=0, minute=0, second=0, microsecond=0)
TodayStart(t) == t - (t % TicksPerDay)

Cutoff(t) == TodayStart(t) - SEARCH_DAYS * TicksPerDay

\* _get(row, col_name) of get_unsent_applicants
GetCol(hdr, row, col_name) ==
  LET i == IndexOf(hdr, col_name)
  IN IF i < 0 \/ i >= Len(row) THEN Empty ELSE Strip(row[i + 1])

RowSelected_ignore_marker(hdr, row, t) ==
  LET date_str == GetCol(hdr, row, "date")
      application_date == _parse_date(date_str)
  IN /\ Truthy(date_str)
     /\ application_date.some
     /\ ~(application_date.v < Cutoff(t))
     /\ Truthy(GetCol(hdr, row, "email"))

\* the per-row test of get_unsent_applicants' loop
RowSelected(hdr, row, t) ==
  LET sent_flag == GetCol(hdr, row, "marker")
      date_str == GetCol(hdr, row, "date")
      application_date == _parse_date(date_str)
      email_address == GetCol(hdr, row, "email")
  IN /\ ~Truthy(sent_flag)
     /\ Truthy(date_str)
     /\ application_date.some
     /\ ~(application_date.v < Cutoff(t))
     /\ Truthy(email_address)

MakeApplicant(hdr, row, i) ==
  [ row_index |-> i + 1,
    age |-> _parse_age(GetCol(hdr, row, "age")),
    email_address |-> GetCol(hdr, row, "email"),
    client_name |-> _normalize_name(GetCol(hdr, row, "client")),
    application_date |-> GetCol(hdr, row, "date") ]

RECURSIVE ApplicantsFrom(_, _, _, _)
ApplicantsFrom(hdr, rows, t, i) ==
  IF i > Len(rows) THEN <<>>
  ELSE IF RowSelected(hdr, rows[i], t)
       THEN <<MakeApplicant(hdr, rows[i], i)>> \o ApplicantsFrom(hdr, rows, t, i + 1)
       ELSE ApplicantsFrom(hdr, rows, t, i + 1)

\* rows are the data rows (all_values[1:]); the header row is hdr
get_unsent_applicants(hdr, rows, t) ==
  IF Len(rows) < 1 THEN <<>>
  ELSE IF IndexOf(hdr, "email") < 0 THEN <<>>
  ELSE ApplicantsFrom(hdr, rows, t, 1)

\* A template text is a sequence of tokens [t, x]: "lit" literal text,
\* "esc_n" the two characters backslash-n, "nl" a line break,
\* "brace" a {x} reference, "sigil" a $x placeholder.
Tok(kind, name) == [t |-> kind, x |-> name]

\* dict.get(key) or None
GetOrNone(d, key) ==
  IF key \in DOMAIN d /\ d[key] # <<>> THEN [some |-> TRUE, v |-> d[key]] ELSE NoneStr

select_template_fallback(age, templates) ==
  LET first == IF ~age.some \/ age.v <= 34 THEN "under_35" ELSE "over_35"
      other == IF first = "under_35" THEN "over_35" ELSE "under_35"
  IN IF GetOrNone(templates, first).some THEN GetOrNone(templates, first)
     ELSE GetOrNone(templates, other)

select_template(age, templates) ==
  IF ~age.some THEN GetOrNone(templates, "under_35")
  ELSE IF age.v <= 34 THEN GetOrNone(templates, "under_35")
  ELSE GetOrNone(templates, "over_35")

\* the result of get_mail_templates when the template sheet cannot be read
NoTemplates == [c \in {} |-> 0]

\* templates.get(applicant_client)
ClientTemplates(templates, applicant_client) ==
  IF applicant_client \in DOMAIN templates
  THEN [some |-> TRUE, v |-> templates[applicant_client]]
  ELSE [some |-> FALSE, v |-> NoTemplates]

\* dict with key name set to entry
SetEntry(d, name, entry) ==
  [x \in DOMAIN d \cup {name} |-> IF x = name THEN entry ELSE d[x]]

RECURSIVE TemplateRows_first_wins(_, _, _, _)
TemplateRows_first_wins(all_values, hdr, i, acc) ==
  IF i > Len(all_values) THEN acc
  ELSE LET row == all_values[i]
           idx == IndexOf(hdr, Label("client"))
           client_name == _normalize_name(IF idx < Len(row) THEN row[idx + 1] ELSE Empty)
           entry == [subject |-> GetCol(hdr, row, Label("subject")),
                     under_35 |-> GetCol(hdr, row, Label("under_35")),
                     over_35 |-> GetCol(hdr, row, Label("over_35"))]
       IN IF ~Truthy(client_name) \/ client_name \in DOMAIN acc
          THEN TemplateRows_first_wins(all_values, hdr, i + 1, acc)
          ELSE TemplateRows_first_wins(all_values, hdr, i + 1,
                                       SetEntry(acc, client_name, entry))

\* the loop over all_values[data_start:], from row i on
RECURSIVE TemplateRows(_, _, _, _)
TemplateRows(all_values, hdr, i, acc) ==
  IF i > Len(all_values) THEN acc
  ELSE LET row == all_values[i]
           idx == IndexOf(hdr, Label("client"))
           client_name == _normalize_name(IF idx < Len(row) THEN row[idx + 1] ELSE Empty)
           entry == [subject |-> GetCol(hdr, row, Label("subject")),
                     under_35 |-> GetCol(hdr, row, Label("under_35")),
                     over_35 |-> GetCol(hdr, row, Label("over_35"))]
       IN IF ~Truthy(client_name) THEN TemplateRows(all_values, hdr, i + 1, acc)
          ELSE TemplateRows(all_values, hdr, i + 1, SetEntry(acc, client_name, entry))

\* the header scan: the 1-based position of the first of the first
\* HEADER_SCAN_ROWS rows holding the client-name label, 0 when there is none
HeaderRow(all_values) ==
  LET window == 1..(IF Len(all_values) < HEADER_SCAN_ROWS THEN Len(all_values)
                    ELSE HEADER_SCAN_ROWS)
      hits == {i \in window : \E j \in 1..Len(all_values[i]) :
                                all_values[i][j] = Label("client")}
  IN IF hits = {} THEN 0 ELSE CHOOSE i \in hits : \A j \in hits : i <= j

\* all_values: the rows of the template sheet as read
get_mail_templates(all_values) ==
  IF Len(all_values) < 2 THEN NoTemplates
  ELSE IF HeaderRow(all_values) = 0 THEN NoTemplates
  ELSE IF HeaderRow(all_values) + 1 > Len(all_values) THEN NoTemplates
  ELSE TemplateRows(all_values, all_values[HeaderRow(all_values)],
                    HeaderRow(all_values) + 1, NoTemplates)

\* An IMAP hint is a sequence of pieces of text; a piece contains the
\* substrings Parts lists for it.  An email is [at, domain]: whether it has
\* an '@', and the text after the last '@'.
IMAP_TO_SMTP_MAP ==
  << << "imap4.muumuu-mail.com", << "smtp.muumuu-mail.com", 587 >> >>,
     << "imap.muumuu-mail.com", << "smtp.muumuu-mail.com", 587 >> >>,
     << "imap.gmail.com", << "smtp.gmail.com", 587 >> >>,
     << "imap.googlemail.com", << "smtp.gmail.com", 587 >> >>,
     << "imap.onamae.com", << "smtp.onamae.com", 587 >> >>,
     << "imap.lolipop.jp", << "smtp.lolipop.jp", 587 >> >> >>

DOMAIN_TO_SMTP_MAP ==
  << << "gmail.com", << "smtp.gmail.com", 587 >> >>,
     << "googlemail.com", << "smtp.gmail.com", 587 >> >>,
     << "muumuu-mail.com", << "smtp.muumuu-mail.com", 587 >> >>,
     << "onamae.com", << "smtp.onamae.com", 587 >> >>,
     << "lolipop.jp", << "smtp.lolipop.jp", 587 >> >> >>

\* str.lower() on the pieces of text the model uses
LowerStr(x) ==
  IF x = "IMAP.LOLIPOP.JP" THEN "imap.lolipop.jp"
  ELSE IF x = "LOLIPOP.JP" THEN "lolipop.jp"
  ELSE x

\* imap_server.lower().strip()
RECURSIVE StripLeft(_)
StripLeft(h) == IF h # <<>> /\ Head(h) = " " THEN StripLeft(Tail(h)) ELSE h

RECURSIVE StripRight(_)
StripRight(h) ==
  IF h # <<>> /\ h[Len(h)] = " " THEN StripRight(SubSeq(h, 1, Len(h) - 1)) ELSE h

LowerStrip(h) == StripRight(StripLeft([i \in 1..Len(h) |-> LowerStr(h[i])]))

\* the substrings of a piece of text that the resolver looks for
Parts(x) ==
  IF x = "imap.gmail.com" THEN {"imap.gmail.com", "gmail"}
  ELSE IF x = "imap.lolipop.jp" THEN {"imap.lolipop.jp", "lolipop"}
  ELSE IF x = "mail.gmail.example" THEN {"gmail"}
  ELSE IF x = "sv1.xserver.jp" THEN {"xserver"}
  ELSE {}

\* key in imap_lower
Contained(key, h) == \E i \in 1..Len(h) : key \in Parts(h[i])

\* imap_lower in IMAP_TO_SMTP_MAP / IMAP_TO_SMTP_MAP[imap_lower]
Lookup(map, key) ==
  IF \E i \in 1..Len(map) : map[i][1] = key
  THEN Some(map[CHOOSE i \in 1..Len(map) : map[i][1] = key][2])
  ELSE None

\* for key, value in IMAP_TO_SMTP_MAP.items(): if key in imap_lower
FirstContained(map, h) ==
  IF \E i \in 1..Len(map) : Contained(map[i][1], h)
  THEN Some(map[CHOOSE i \in 1..Len(map) :
                  /\ Contained(map[i][1], h)
                  /\ \A j \in 1..(i - 1) : ~Contained(map[j][1], h)][2])
  ELSE None

_resolve_smtp_domain_first(imap_server, email) ==
  LET imap_lower == LowerStrip(imap_server)
      whole == IF Len(imap_lower) = 1 THEN imap_lower[1] ELSE ""
  IN IF email.at /\ Lookup(DOMAIN_TO_SMTP_MAP, LowerStr(email.domain)).some
     THEN Lookup(DOMAIN_TO_SMTP_MAP, LowerStr(email.domain)).v
     ELSE IF Lookup(IMAP_TO_SMTP_MAP, whole).some THEN Lookup(IMAP_TO_SMTP_MAP, whole).v
     ELSE IF FirstContained(IMAP_TO_SMTP_MAP, imap_lower).some
     THEN FirstContained(IMAP_TO_SMTP_MAP, imap_lower).v
     ELSE IF Contained("gmail", imap_lower) \/ Contained("google", imap_lower)
     THEN << "smtp.gmail.com", 587 >>
     ELSE IF Contained("muumuu", imap_lower) THEN << "smtp.muumuu-mail.com", 587 >>
     ELSE IF Contained("onamae", imap_lower) THEN << "smtp.onamae.com", 587 >>
     ELSE IF Contained("lolipop", imap_lower) THEN << "smtp.lolipop.jp", 587 >>
     ELSE IF /\ Contained("xserver", imap_lower) \/ Contained("xsrv", imap_lower)
             /\ email.at /\ email.domain # ""
     THEN << email.domain, 587 >>
     ELSE << SMTP_DEFAULT_SERVER, SMTP_DEFAULT_PORT >>

_resolve_smtp(imap_server, email) ==
  LET imap_lower == LowerStrip(imap_server)
      whole == IF Len(imap_lower) = 1 THEN imap_lower[1] ELSE ""
  IN IF Lookup(IMAP_TO_SMTP_MAP, whole).some THEN Lookup(IMAP_TO_SMTP_MAP, whole).v
     ELSE IF FirstContained(IMAP_TO_SMTP_MAP, imap_lower).some
     THEN FirstContained(IMAP_TO_SMTP_MAP, imap_lower).v
     ELSE IF Contained("gmail", imap_lower) \/ Contained("google", imap_lower)
     THEN << "smtp.gmail.com", 587 >>
     ELSE IF Contained("muumuu", imap_lower) THEN << "smtp.muumuu-mail.com", 587 >>
     ELSE IF Contained("onamae", imap_lower) THEN << "smtp.onamae.com", 587 >>
     ELSE IF Contained("lolipop", imap_lower) THEN << "smtp.lolipop.jp", 587 >>
     ELSE IF /\ Contained("xserver", imap_lower) \/ Contained("xsrv", imap_lower)
             /\ email.at /\ email.domain # ""
     THEN << email.domain, 587 >>
     ELSE IF email.at /\ Lookup(DOMAIN_TO_SMTP_MAP, LowerStr(email.domain)).some
     THEN Lookup(DOMAIN_TO_SMTP_MAP, LowerStr(email.domain)).v
     ELSE << SMTP_DEFAULT_SERVER, SMTP_DEFAULT_PORT >>

\* ------------------------------------------------------------- mailer.py
\* applicant.get('columns', {})
Columns(applicant) ==
  IF "columns" \in DOMAIN applicant THEN applicant.columns ELSE [c \in {} |-> <<>>]

\* template.replace('\\n', '\n')
UnescapeNewlines(template) ==
  [i \in 1..Len(template) |->
     IF template[i].t = "esc_n" THEN Tok("nl", "") ELSE template[i]]

RECURSIVE FlattenSeq(_)
FlattenSeq(ss) == IF ss = <<>> THEN <<>> ELSE Head(ss) \o FlattenSeq(Tail(ss))

\* body.replace('{' + col_name + '}', col_value) for every column
ReplaceColumns(body, columns) ==
  FlattenSeq([i \in 1..Len(body) |->
     IF body[i].t = "brace" /\ body[i].x \in DOMAIN columns
     THEN columns[body[i].x] ELSE <<body[i]>>])

build_email_body(template, applicant) ==
  IF template = <<>> THEN NoneStr
  ELSE [some |-> TRUE, v |-> ReplaceColumns(UnescapeNewlines(template), Columns(applicant))]

\* one delivery attempt of send_email's retry loop, by what the SMTP session
\* raised: "ok" nothing, "auth" SMTPAuthenticationError, "recipient"
\* SMTPRecipientsRefused, "disconnected" SMTPServerDisconnected,
\* "transient" any other exception.  attempt is the loop's 0-based index.
SmtpOutcomes == {"ok", "auth", "recipient", "disconnected", "transient"}

send_email_step_retry_auth(outcome, attempt) ==
  IF outcome = "ok" THEN "return_true"
  ELSE IF outcome = "recipient" THEN "return_false"
  ELSE IF outcome = "disconnected" THEN "break"
  ELSE IF attempt < SMTP_MAX_RETRIES - 1 THEN "sleep"
  ELSE "return_false"

send_email_step(outcome, attempt) ==
  IF outcome = "ok" THEN "return_true"
  ELSE IF outcome = "auth" THEN "break"
  ELSE IF outcome = "recipient" THEN "return_false"
  ELSE IF outcome = "disconnected" THEN "break"
  ELSE IF attempt < SMTP_MAX_RETRIES - 1 THEN "sleep"
  ELSE "return_false"

\* wait_time = (attempt + 1) * SMTP_RETRY_INTERVAL
SmtpWait(attempt) == (attempt + 1) * SMTP_RETRY_INTERVAL

\* ------------------------------------------------------------- sheets.py
\* one update_cell attempt of mark_as_sent's retry loop: "ok", "rate_limit"
\* (APIError with 429 / RATE_LIMIT), "api_error" (another APIError),
\* "error" (any other exception)
ApiOutcomes == {"ok", "rate_limit", "api_error", "error"}

mark_as_sent_step_retry_all(outcome, attempt) ==
  IF outcome = "ok" THEN "return_true" ELSE "sleep"

mark_as_sent_step(outcome, attempt) ==
  IF outcome = "ok" THEN "return_true"
  ELSE IF outcome = "rate_limit" THEN "sleep"
  ELSE "return_false"

\* wait = (attempt + 1) * SHEETS_API_RETRY_INTERVAL
ApiWait(attempt) == (attempt + 1) * SHEETS_API_RETRY_INTERVAL

\* headers.index('メール送信済') + 1, 0 when the column is missing
MarkerColumn(hdr) == IndexOf(hdr, "marker") + 1

\* worksheet.update_cell(row_index, col_index, value) on the data rows
update_cell(rows, row_index, col_index, value) ==
  [rows EXCEPT ![row_index - 1][col_index] = value]

\* ---------------------------------------------------------- auto_reply.py
Zero == [sent |-> 0, skipped_no_template |-> 0, skipped_empty_body |-> 0,
         failed |-> 0, update_failed |-> 0]

Bump_update_failed_also_sent(res, field) ==
  IF field = "update_failed"
  THEN [res EXCEPT !.update_failed = @ + 1, !.sent = @ + 1]
  ELSE [res EXCEPT ![field] = @ + 1]

\* result[field] += 1
Bump(res, field) == [res EXCEPT ![field] = @ + 1]

AddResult(tot, res) ==
  [f \in DOMAIN tot |-> tot[f] + res[f]]

EarlyExit_zero_no_template(readOk, cands, headerOk, tpls) ==
  IF ~readOk \/ cands = <<>> THEN [to |-> "return", result |-> Zero, tpl |-> FALSE]
  ELSE IF ~headerOk THEN [to |-> "raise", result |-> Zero, tpl |-> FALSE]
  ELSE IF DOMAIN tpls = {} THEN [to |-> "return", result |-> Zero, tpl |-> TRUE]
  ELSE [to |-> "loop", result |-> Zero, tpl |-> TRUE]

\* process_account before its loop: where it goes (returns, raises in
\* worksheet.row_values(1), or enters the loop), the result it returns, and
\* whether get_mail_templates was called
EarlyExit(readOk, cands, headerOk, tpls) ==
  IF ~readOk THEN [to |-> "return", result |-> Zero, tpl |-> FALSE]
  ELSE IF cands = <<>> THEN [to |-> "return", result |-> Zero, tpl |-> FALSE]
  ELSE IF ~headerOk THEN [to |-> "raise", result |-> Zero, tpl |-> FALSE]
  ELSE IF DOMAIN tpls = {}
  THEN [to |-> "return",
        result |-> [Zero EXCEPT !.skipped_no_template = Len(cands)], tpl |-> TRUE]
  ELSE [to |-> "loop", result |-> Zero, tpl |-> TRUE]

ApplicantStep_ignore_dry(applicant, templates, dry) ==
  LET client_templates == ClientTemplates(templates, applicant.client_name)
      template_text == select_template(applicant.age, client_templates.v)
      body == build_email_body(template_text.v, applicant)
  IN IF ~client_templates.some THEN "skipped_no_template"
     ELSE IF ~template_text.some THEN "skipped_empty_body"
     ELSE IF ~body.some \/ body.v = <<>> THEN "skipped_empty_body"
     ELSE "send"

\* what one iteration of process_account's loop does with an applicant
\* before any send: the counter it bumps, or "send"
ApplicantStep(applicant, templates, dry) ==
  LET client_templates == ClientTemplates(templates, applicant.client_name)
      template_text == select_template(applicant.age, client_templates.v)
      body == build_email_body(template_text.v, applicant)
  IN IF ~client_templates.some THEN "skipped_no_template"
     ELSE IF ~template_text.some THEN "skipped_empty_body"
     ELSE IF ~body.some \/ body.v = <<>> THEN "skipped_empty_body"
     ELSE IF dry THEN "dry_run"
     ELSE "send"

\* the body handed to send_email
BodyFor(applicant, templates) ==
  build_email_body(
    select_template(applicant.age,
                    ClientTemplates(templates, applicant.client_name).v).v,
    applicant).v

AfterSend_mark_always(success) == "mark_as_sent"

\* process_account's branch on send_email's result
AfterSend(success) == IF success THEN "mark_as_sent" ELSE "failed"

AfterMark_always_sent(update_ok) == "sent"

\* process_account's branch on mark_as_sent's result
AfterMark(update_ok) == IF update_ok THEN "sent" ELSE "update_failed"

\* main's per-account try/except: the totals after an account ended
TotalsAfter(tot, res, status) ==
  IF status = "returned" THEN AddResult(tot, res) ELSE tot

MainAfterAccount_abort(status) == IF status = "raised" THEN "exit" ELSE "loop"

\* main's per-account try/except: where main goes after an account ended
MainAfterAccount(status) == "loop"

\* args.account: the accounts whose client_name is the one asked for
\* (0: no --account option); an account's client_name is its number
FilterAccounts(accts, wanted) ==
  IF wanted = 0 THEN accts ELSE SelectSeq(accts, LAMBDA a : a = wanted)

\* main's early returns before the account loop
MainInit(authOk, accts, wanted) ==
  IF ~authOk THEN "return"
  ELSE IF accts = <<>> THEN "return"
  ELSE IF wanted # 0 /\ FilterAccounts(accts, wanted) = <<>> THEN "return"
  ELSE "loop"

\* ------------------------------------------------------------------ state
VARIABLES
  now,          \* the wall clock, in ticks (datetime.now(JST))
  headers,      \* row 1 of the applicant sheet
  sheet,        \* the data rows of the applicant sheet (row_index = position + 1)
  registry,     \* what the template sheet holds, as get_mail_templates reads it
  pc,           \* "idle", "loop", "applicant", "send", "mark", "exit"
  used,         \* process_account calls started or due so far, over all runs
  dry_run,      \* args.dry_run
  accounts,     \* main's accounts list
  acct,         \* position of main's loop in accounts
  totals,       \* main's total_* counters
  summary,      \* whether main printed the final summary
  result,       \* process_account's result dict
  applicants,   \* process_account's applicants list
  templates,    \* process_account's templates dict
  k,            \* position of process_account's loop in applicants
  msg,          \* the arguments of the send_email call in progress
  attempt,      \* the retry loop's index in send_email / mark_as_sent
  slept,        \* the time.sleep calls of the current send_email call
  apiSlept,     \* the time.sleep calls of the current mark_as_sent call
  ev,           \* the last external call made: which, its outcome, what it returned
  acctLog,      \* the accounts main has finished in this run, with how each ended
  emails,       \* per row, how many emails were delivered to it over all runs
  calls,        \* per-call record of process_account: what was done to which row
  unmarkedSent, \* rows that got an email whose marker write-back failed since
  lastFetch,    \* the last get_unsent_applicants call: read ok?, rows selected
  fn,           \* a helper called on its own: which one
  arg,          \* its arguments
  ret,          \* [done, v]: whether it returned, and what
  other         \* a second run of the script on the same applicant sheet

vars == << now, headers, sheet, registry, pc, used, dry_run, accounts, acct, totals,
           summary, result, applicants, templates, k, msg, attempt, slept, apiSlept,
           ev, acctLog, emails, calls, unmarkedSent, lastFetch, fn, arg, ret, other >>

env == << headers, registry >>

pure == << fn, arg, ret >>

\* ------------------------------------------------------------ environment
FullHeader == << "marker", "date", "email", "age", "client" >>
NoMarkerHeader == << "date", "email", "age", "client" >>

StartDay == MaxDay - 1
StartTime == StartDay * TicksPerDay + (TicksPerDay - 1)
MaxTime == MaxDay * TicksPerDay + (TicksPerDay - 1)

MakeRow(hdr, fields) == [i \in 1..Len(hdr) |-> fields[hdr[i]]]

\* the kinds of applicant rows a sheet starts with
RowKinds ==
  { \* age not given, applied on the cutoff day (date only)
    [marker |-> Empty, date |-> Cell("Y/m/d", (StartDay - 1) * TicksPerDay),
     email |-> Text(1), age |-> Empty, client |-> Text(1)],
    \* 34.9 years old, applied just now, marker cell holding only whitespace
    [marker |-> Blank, date |-> Cell("Y-m-d H:M", StartTime),
     email |-> Text(2), age |-> Num(349), client |-> Text(1)],
    \* 35 years old
    [marker |-> Empty, date |-> Cell("Y-m-d", StartDay * TicksPerDay),
     email |-> Text(3), age |-> Num(350), client |-> Text(2)],
    \* 34 years old, a client with no template for that age
    [marker |-> Empty, date |-> Cell("Y-m-d H:M:S", StartTime - 1),
     email |-> Text(4), age |-> Num(340), client |-> Text(2)],
    \* dated tomorrow, a client the template sheet does not know
    [marker |-> Empty, date |-> Cell("Y/m/d H:M:S", (StartDay + 1) * TicksPerDay),
     email |-> Text(5), age |-> Num(200), client |-> Text(3)] }

\* the template sheet: client 1 has only the 34-and-under body, client 2
\* only the 35-and-over body
Registries ==
  { (Text(1) :> [subject |-> <<>>,
                 under_35 |-> <<Tok("lit", "U"), Tok("esc_n", "")>>,
                 over_35 |-> <<>>])
    @@ (Text(2) :> [subject |-> <<Tok("lit", "S")>>,
                    under_35 |-> <<>>,
                    over_35 |-> <<Tok("lit", "O")>>]) }

NoEv == [call |-> "none", outcome |-> "", ret |-> "", n |-> 0]
NoMsg == [row |-> 0, to |-> Empty, body |-> <<>>]
NoCalls == [sendOk |-> {}, sendFail |-> {}, noTemplate |-> {}, emptyBody |-> {},
            dry |-> {}, writes |-> {}, warned |-> {}]
NoFetch == [ok |-> FALSE, rows |-> {}, tpl |-> FALSE]
NoRet == [done |-> FALSE, v |-> <<>>]
NoOther == [pc |-> "off", applicants |-> <<>>, k |-> 0, rows |-> {}, seen |-> {}, sent |-> {}]

Init ==
  /\ now = StartTime
  /\ headers \in {FullHeader, NoMarkerHeader}
  /\ sheet \in [1..MaxRows -> {MakeRow(headers, f) : f \in RowKinds}]
  /\ registry \in Registries
  /\ pc = "idle"
  /\ used = 0
  /\ dry_run = FALSE
  /\ accounts = <<>>
  /\ acct = 0
  /\ totals = Zero
  /\ summary = FALSE
  /\ result = Zero
  /\ applicants = <<>>
  /\ templates = NoTemplates
  /\ k = 0
  /\ msg = NoMsg
  /\ attempt = 0
  /\ slept = <<>>
  /\ apiSlept = <<>>
  /\ ev = NoEv
  /\ acctLog = <<>>
  /\ emails = [r \in 2..(MaxRows + 1) |-> 0]
  /\ calls = NoCalls
  /\ unmarkedSent = {}
  /\ lastFetch = NoFetch
  /\ fn = "none"
  /\ arg = <<>>
  /\ ret = NoRet
  /\ other = NoOther

\* ---------------------------------------------------------------- main
\* main up to the account loop: authentication, the account registry, --account
MainStart ==
  /\ pc = "idle"
  /\ \E dry \in BOOLEAN, authOk \in BOOLEAN, n \in 0..MaxAccounts, wanted \in 0..MaxAccounts :
       LET all == [i \in 1..n |-> i]
           accts == FilterAccounts(all, wanted)
       IN /\ dry_run' = dry
          /\ IF MainInit(authOk, all, wanted) = "return"
             THEN pc' = "exit" /\ accounts' = <<>> /\ acct' = 0 /\ used' = used
             ELSE /\ used + Len(accts) <= MaxCalls
                  /\ pc' = "loop" /\ accounts' = accts /\ acct' = 1
                  /\ used' = used + Len(accts)
  /\ totals' = Zero
  /\ UNCHANGED << now, env, pure, other, sheet, summary, result, applicants, templates, k, msg,
                  attempt, slept, apiSlept, ev, acctLog, emails, calls, unmarkedSent,
                  lastFetch >>

\* process_account ended (returned res, or raised): main's try/except around it
Finish(res, status) ==
  /\ totals' = TotalsAfter(totals, res, status)
  /\ acctLog' = Append(acctLog, [id |-> accounts[acct], status |-> status, result |-> res])
  /\ acct' = acct + 1
  /\ pc' = MainAfterAccount(status)
  /\ result' = Zero
  /\ applicants' = <<>>
  /\ templates' = NoTemplates
  /\ k' = 0
  /\ msg' = NoMsg
  /\ attempt' = 0
  /\ slept' = <<>>
  /\ apiSlept' = <<>>
  /\ calls' = NoCalls

\* process_account up to its applicant loop: the sheet read, row_values(1),
\* the template registry
ProcessAccountStart ==
  /\ pc = "loop"
  /\ acct <= Len(accounts)
  /\ \E readOk \in BOOLEAN, headerOk \in BOOLEAN, tplOk \in BOOLEAN :
       LET cands == IF readOk THEN get_unsent_applicants(headers, sheet, now) ELSE <<>>
           tpls == IF tplOk THEN registry ELSE NoTemplates
           early == EarlyExit(readOk, cands, headerOk, tpls)
       IN /\ lastFetch' = [ok |-> readOk,
                           rows |-> {cands[i].row_index : i \in 1..Len(cands)},
                           tpl |-> early.tpl]
          /\ IF early.to = "return" THEN Finish(early.result, "returned")
             ELSE IF early.to = "raise" THEN Finish(early.result, "raised")
             ELSE /\ pc' = "applicant"
                  /\ applicants' = cands
                  /\ templates' = tpls
                  /\ k' = 1
                  /\ result' = Zero
                  /\ calls' = NoCalls
                  /\ UNCHANGED << totals, acctLog, acct, msg, attempt, slept, apiSlept >>
  /\ ev' = NoEv
  /\ UNCHANGED << now, env, pure, other, sheet, used, dry_run, accounts, summary, emails, unmarkedSent >>

\* process_account's loop is over: return result
ProcessAccountReturn ==
  /\ pc = "applicant"
  /\ k > Len(applicants)
  /\ Finish(result, "returned")
  /\ ev' = NoEv
  /\ lastFetch' = NoFetch
  /\ UNCHANGED << now, env, pure, other, sheet, used, dry_run, accounts, summary, emails, unmarkedSent >>

\* an unexpected exception inside the loop body
ProcessAccountRaise ==
  /\ pc = "applicant"
  /\ k <= Len(applicants)
  /\ Finish(result, "raised")
  /\ ev' = NoEv
  /\ lastFetch' = NoFetch
  /\ UNCHANGED << now, env, pure, other, sheet, used, dry_run, accounts, summary, emails, unmarkedSent >>

\* one iteration of the loop up to the send_email call
NextApplicant ==
  /\ pc = "applicant"
  /\ k <= Len(applicants)
  /\ LET applicant == applicants[k]
         row == applicant.row_index
         step == ApplicantStep(applicant, templates, dry_run)
     IN IF step = "send"
        THEN /\ pc' = "send"
             /\ msg' = [row |-> row, to |-> applicant.email_address,
                        body |-> BodyFor(applicant, templates)]
             /\ UNCHANGED << result, k, calls >>
        ELSE /\ pc' = "applicant"
             /\ k' = k + 1
             /\ result' = Bump(result, IF step = "dry_run" THEN "sent" ELSE step)
             /\ calls' = IF step = "skipped_no_template"
                         THEN [calls EXCEPT !.noTemplate = @ \cup {row}]
                         ELSE IF step = "skipped_empty_body"
                         THEN [calls EXCEPT !.emptyBody = @ \cup {row}]
                         ELSE [calls EXCEPT !.dry = @ \cup {row}]
             /\ msg' = NoMsg
  /\ attempt' = 0
  /\ slept' = <<>>
  /\ apiSlept' = <<>>
  /\ ev' = NoEv
  /\ lastFetch' = NoFetch
  /\ UNCHANGED << now, env, pure, other, sheet, used, dry_run, accounts, acct, totals, summary,
                  applicants, templates, acctLog, emails, unmarkedSent >>

\* process_account after mark_as_sent returned update_ok for row
\* (c: the call record so far)
HandleMark(update_ok, row, c) ==
  /\ result' = Bump(result, AfterMark(update_ok))
  /\ calls' = IF AfterMark(update_ok) = "sent" THEN c
              ELSE [c EXCEPT !.warned = @ \cup {row}]
  /\ k' = k + 1
  /\ pc' = "applicant"

\* one delivery attempt inside send_email, and what process_account does
\* when send_email returns
SendAttempt ==
  /\ pc = "send"
  /\ \E o \in SmtpOutcomes :
       LET d == send_email_step(o, attempt)
           row == msg.row
           success == (d = "return_true")
           sentCalls == IF success THEN [calls EXCEPT !.sendOk = @ \cup {row}]
                        ELSE [calls EXCEPT !.sendFail = @ \cup {row}]
       IN IF d = "sleep"
          THEN /\ slept' = Append(slept, SmtpWait(attempt))
               /\ attempt' = attempt + 1
               /\ ev' = [call |-> "smtp", outcome |-> o, ret |-> "", n |-> attempt + 1]
               /\ UNCHANGED << pc, k, result, calls, emails, unmarkedSent, apiSlept >>
          ELSE /\ ev' = [call |-> "smtp", outcome |-> o,
                         ret |-> IF success THEN "True" ELSE "False", n |-> attempt + 1]
               /\ emails' = IF success THEN [emails EXCEPT ![row] = @ + 1] ELSE emails
               /\ slept' = slept
               /\ apiSlept' = <<>>
               /\ attempt' = 0
               /\ IF AfterSend(success) = "failed"
                  THEN /\ result' = Bump(result, "failed")
                       /\ calls' = sentCalls
                       /\ k' = k + 1
                       /\ pc' = "applicant"
                       /\ UNCHANGED unmarkedSent
                  ELSE IF MarkerColumn(headers) = 0
                  THEN \* mark_as_sent: the marker column is not in the header
                       /\ HandleMark(FALSE, row, sentCalls)
                       /\ unmarkedSent' = IF success THEN unmarkedSent \cup {row}
                                          ELSE unmarkedSent
                  ELSE /\ pc' = "mark"
                       /\ calls' = sentCalls
                       /\ UNCHANGED << k, result, unmarkedSent >>
  /\ UNCHANGED << now, env, pure, other, sheet, used, dry_run, accounts, acct, totals, summary,
                  applicants, templates, msg, acctLog, lastFetch >>

\* one update_cell attempt inside mark_as_sent, and what process_account
\* does when mark_as_sent returns
MarkAttempt ==
  /\ pc = "mark"
  /\ \E o \in ApiOutcomes :
       LET d == mark_as_sent_step(o, attempt)
           row == msg.row
           col == MarkerColumn(headers)
           wrote == [calls EXCEPT !.writes = @ \cup {[row |-> row, col |-> col]}]
           more == attempt + 1 < SHEETS_API_MAX_RETRIES
       IN /\ sheet' = IF o = "ok" THEN update_cell(sheet, row, col, NowStr(now)) ELSE sheet
          /\ apiSlept' = IF d = "sleep" THEN Append(apiSlept, ApiWait(attempt)) ELSE apiSlept
          /\ IF d = "sleep" /\ more
             THEN /\ attempt' = attempt + 1
                  /\ ev' = [call |-> "update_cell", outcome |-> o, ret |-> "",
                            n |-> attempt + 1]
                  /\ calls' = wrote
                  /\ UNCHANGED << pc, k, result, unmarkedSent >>
             ELSE /\ attempt' = 0
                  /\ ev' = [call |-> "update_cell", outcome |-> o,
                            ret |-> IF d = "return_true" THEN "True" ELSE "False",
                            n |-> attempt + 1]
                  /\ HandleMark(d = "return_true", row, wrote)
                  /\ unmarkedSent' = IF o = "ok" THEN unmarkedSent \ {row}
                                     ELSE IF row \in calls.sendOk
                                     THEN unmarkedSent \cup {row}
                                     ELSE unmarkedSent
  /\ UNCHANGED << now, env, pure, other, used, dry_run, accounts, acct, totals, summary,
                  applicants, templates, msg, slept, acctLog, emails, lastFetch >>

\* main after the account loop: the final summary
Summary ==
  /\ pc = "loop"
  /\ acct > Len(accounts)
  /\ summary' = TRUE
  /\ pc' = "exit"
  /\ ev' = NoEv
  /\ lastFetch' = NoFetch
  /\ UNCHANGED << now, env, pure, other, sheet, used, dry_run, accounts, acct, totals, result,
                  applicants, templates, k, msg, attempt, slept, apiSlept, acctLog,
                  emails, calls, unmarkedSent >>

\* the script is started again, at the same time or later
NextRun ==
  /\ pc = "exit"
  /\ \E t \in now..MaxTime : now' = t
  /\ pc' = "idle"
  /\ summary' = FALSE
  /\ accounts' = <<>>
  /\ acct' = 0
  /\ totals' = Zero
  /\ acctLog' = <<>>
  /\ calls' = NoCalls
  /\ ev' = NoEv
  /\ lastFetch' = NoFetch
  /\ dry_run' = FALSE
  /\ UNCHANGED << env, pure, other, sheet, used, result, applicants, templates, k, msg, attempt,
                  slept, apiSlept, emails, unmarkedSent >>

Next ==
  \/ MainStart
  \/ ProcessAccountStart
  \/ NextApplicant
  \/ ProcessAccountRaise
  \/ ProcessAccountReturn
  \/ SendAttempt
  \/ MarkAttempt
  \/ Summary
  \/ NextRun

Spec == Init /\ [][Next]_vars

\* one process_account call on its own: main has one account and is about
\* to call process_account for it
InitCall ==
  /\ now = StartTime
  /\ headers \in {FullHeader, NoMarkerHeader}
  /\ sheet \in [1..MaxRows -> {MakeRow(headers, f) : f \in RowKinds}]
  /\ registry \in Registries
  /\ pc = "loop"
  /\ used = 1
  /\ dry_run \in BOOLEAN
  /\ accounts = <<1>>
  /\ acct = 1
  /\ totals = Zero
  /\ summary = FALSE
  /\ result = Zero
  /\ applicants = <<>>
  /\ templates = NoTemplates
  /\ k = 0
  /\ msg = NoMsg
  /\ attempt = 0
  /\ slept = <<>>
  /\ apiSlept = <<>>
  /\ ev = NoEv
  /\ acctLog = <<>>
  /\ emails = [r \in 2..(MaxRows + 1) |-> 0]
  /\ calls = NoCalls
  /\ unmarkedSent = {}
  /\ lastFetch = NoFetch
  /\ fn = "none"
  /\ arg = <<>>
  /\ ret = NoRet
  /\ other = NoOther

NextCall ==
  \/ ProcessAccountStart
  \/ NextApplicant
  \/ ProcessAccountRaise
  \/ ProcessAccountReturn
  \/ SendAttempt
  \/ MarkAttempt
  \/ Summary

SpecCall == InitCall /\ [][NextCall]_vars

\* ------------------------------------------------------ a second run
\* A second run of the script on the same applicant sheet, overlapping the
\* first: other.pc is "off", "applicant", "mark" or "done"; other.rows are
\* the rows it selected, other.seen the rows whose marker was set when it
\* read the sheet, other.sent the rows its send_email succeeded for.
OtherRegs == << now, env, pure, pc, used, dry_run, accounts, acct, totals, summary,
                result, applicants, templates, k, msg, attempt, slept, apiSlept, ev,
                acctLog, calls, lastFetch >>

\* get_unsent_applicants in the second run
OtherStart ==
  /\ other.pc = "off"
  /\ LET cands == get_unsent_applicants(headers, sheet, now)
     IN other' = [pc |-> IF cands = <<>> THEN "done" ELSE "applicant",
                  applicants |-> cands, k |-> 1,
                  rows |-> {cands[i].row_index : i \in 1..Len(cands)},
                  seen |-> {r \in 2..(Len(sheet) + 1) :
                              Truthy(GetCol(headers, sheet[r - 1], "marker"))},
                  sent |-> {}]
  /\ UNCHANGED << OtherRegs, sheet, emails, unmarkedSent >>

\* one iteration of the second run's loop up to and including send_email
OtherApplicant ==
  /\ other.pc = "applicant"
  /\ other.k <= Len(other.applicants)
  /\ LET applicant == other.applicants[other.k]
         row == applicant.row_index
     IN IF ApplicantStep(applicant, registry, FALSE) # "send"
        THEN /\ other' = [other EXCEPT !.k = @ + 1]
             /\ UNCHANGED emails
        ELSE \E success \in BOOLEAN :
               IF AfterSend(success) = "failed"
               THEN /\ other' = [other EXCEPT !.k = @ + 1]
                    /\ UNCHANGED emails
               ELSE /\ emails' = [emails EXCEPT ![row] = @ + 1]
                    /\ other' = [other EXCEPT !.pc = "mark", !.sent = @ \cup {row}]
  /\ UNCHANGED << OtherRegs, sheet, unmarkedSent >>

\* mark_as_sent in the second run
OtherMark ==
  /\ other.pc = "mark"
  /\ LET row == other.applicants[other.k].row_index
         col == MarkerColumn(headers)
     IN \E update_ok \in BOOLEAN :
          /\ update_ok => col # 0
          /\ sheet' = IF update_ok THEN update_cell(sheet, row, col, NowStr(now)) ELSE sheet
          /\ unmarkedSent' = IF update_ok THEN unmarkedSent \ {row}
                             ELSE unmarkedSent \cup {row}
  /\ other' = [other EXCEPT !.pc = "applicant", !.k = @ + 1]
  /\ UNCHANGED << OtherRegs, emails >>

\* the second run's loop is over
OtherReturn ==
  /\ other.pc = "applicant"
  /\ other.k > Len(other.applicants)
  /\ other' = [other EXCEPT !.pc = "done"]
  /\ UNCHANGED << OtherRegs, sheet, emails, unmarkedSent >>

\* two real runs
InitRace == InitCall /\ ~dry_run

NextRace ==
  \/ ProcessAccountStart
  \/ NextApplicant
  \/ SendAttempt
  \/ MarkAttempt
  \/ ProcessAccountReturn
  \/ OtherStart
  \/ OtherApplicant
  \/ OtherMark
  \/ OtherReturn

SpecRace == InitRace /\ [][NextRace]_vars

\* ------------------------------------------------- helpers on their own
\* everything main and process_account own, while a helper is called alone
prog == << now, headers, sheet, registry, pc, used, dry_run, accounts, acct, totals,
           summary, result, applicants, templates, k, msg, attempt, slept, apiSlept,
           ev, acctLog, emails, calls, unmarkedSent, lastFetch, other >>

ProgIdle ==
  /\ now = StartTime
  /\ headers = FullHeader
  /\ sheet = <<>>
  /\ registry = NoTemplates
  /\ pc = "idle"
  /\ used = 0
  /\ dry_run = FALSE
  /\ accounts = <<>>
  /\ acct = 0
  /\ totals = Zero
  /\ summary = FALSE
  /\ result = Zero
  /\ applicants = <<>>
  /\ templates = NoTemplates
  /\ k = 0
  /\ msg = NoMsg
  /\ attempt = 0
  /\ slept = <<>>
  /\ apiSlept = <<>>
  /\ ev = NoEv
  /\ acctLog = <<>>
  /\ emails = [r \in 2..(MaxRows + 1) |-> 0]
  /\ calls = NoCalls
  /\ unmarkedSent = {}
  /\ lastFetch = NoFetch
  /\ other = NoOther

\* template texts: literal text, \n, {name}, {zzz}, $name, $unknown
BodyTokens ==
  { Tok("lit", "U"), Tok("esc_n", ""), Tok("brace", "name"), Tok("brace", "zzz"),
    Tok("sigil", "name"), Tok("sigil", "unknown") }

TemplateTexts == UNION { [1..n -> BodyTokens] : n \in 0..MaxTemplateLen }

\* applicant dicts: as get_unsent_applicants builds them (no 'columns'
\* key), and with a 'columns' map whose name value is "X" or ""
BodyApplicants ==
  { [name |-> <<Tok("lit", "X")>>, client_name |-> <<Tok("lit", "C")>>],
    [name |-> <<Tok("lit", "X")>>, client_name |-> <<Tok("lit", "C")>>,
     columns |-> ("name" :> <<Tok("lit", "X")>>)],
    [name |-> <<>>, client_name |-> <<Tok("lit", "C")>>,
     columns |-> ("name" :> <<>>)] }

BodyArgs == [template : TemplateTexts, applicant : BodyApplicants]

\* IMAP hints: a map key, one in capitals, a port suffix, a host with a
\* provider keyword in it, an xserver host, an unknown host, white space
HintPieces ==
  { "imap.gmail.com", "IMAP.LOLIPOP.JP", ":993", "mail.gmail.example",
    "sv1.xserver.jp", "mail.example.net", " " }

Hints == UNION { [1..n -> HintPieces] : n \in 0..MaxHintLen }

Emails ==
  { [at |-> FALSE, domain |-> ""], [at |-> TRUE, domain |-> ""],
    [at |-> TRUE, domain |-> "lolipop.jp"], [at |-> TRUE, domain |-> "LOLIPOP.JP"],
    [at |-> TRUE, domain |-> "gmail.com"], [at |-> TRUE, domain |-> "example.com"] }

SmtpArgs == [imap_server : Hints, email : Emails]

\* the rows of a template sheet: the full header, a header with only the
\* <=34 and client columns, a title row, and data rows
TemplateRowKinds ==
  { << Label("client"), Label("subject"), Label("under_35"), Label("over_35") >>,
    << Label("under_35"), Label("client") >>,
    << Text(9) >>,
    << Padded(1), Text(11), Text(12), Blank >>,
    << Text(1), Empty, Text(22), Text(23) >>,
    << Blank, Text(31), Text(32), Text(33) >> }

TemplateSheets == UNION { [1..n -> TemplateRowKinds] : n \in 0..MaxTplRows }

InitFn ==
  /\ ProgIdle
  /\ ret = NoRet
  /\ \/ fn = "build_email_body" /\ arg \in BodyArgs
     \/ fn = "_resolve_smtp" /\ arg \in SmtpArgs
     \/ fn = "get_mail_templates" /\ arg \in TemplateSheets

CallBuildEmailBody ==
  /\ fn = "build_email_body"
  /\ ~ret.done
  /\ ret' = [done |-> TRUE, v |-> build_email_body(arg.template, arg.applicant)]
  /\ UNCHANGED << prog, fn, arg >>

CallResolveSmtp ==
  /\ fn = "_resolve_smtp"
  /\ ~ret.done
  /\ ret' = [done |-> TRUE, v |-> _resolve_smtp(arg.imap_server, arg.email)]
  /\ UNCHANGED << prog, fn, arg >>

CallGetMailTemplates ==
  /\ fn = "get_mail_templates"
  /\ ~ret.done
  /\ ret' = [done |-> TRUE, v |-> get_mail_templates(arg)]
  /\ UNCHANGED << prog, fn, arg >>

NextFn ==
  \/ CallBuildEmailBody
  \/ CallGetMailTemplates
  \/ CallResolveSmtp

SpecFn == InitFn /\ [][NextFn]_vars

\* ---------------------------------------------------------------- properties
TypeOK ==
  /\ pc \in {"idle", "loop", "applicant", "send", "mark", "exit"}
  /\ now \in StartTime..MaxTime
  /\ used \in 0..MaxCalls
  /\ attempt \in 0..2

RowIds == 2..(MaxRows + 1)

\* the marker cell of sheet row r as the selector reads it
MarkerOf(r) == GetCol(headers, sheet[r - 1], "marker")
Marked(r) == Truthy(MarkerOf(r))

InCall == pc \in {"applicant", "send", "mark"}

\* the rows the loop has finished with
DoneRows == IF InCall THEN {applicants[j].row_index : j \in 1..(k - 1)} ELSE {}

\* the age bracket of the spec, and the body the template sheet holds for it
Bracket(age) == IF ~age.some \/ age.v <= 34 THEN "under_35" ELSE "over_35"
Known(a) == a.client_name \in DOMAIN registry
BracketBody(a) == registry[a.client_name][Bracket(a.age)]
ApplicantOfRow(r) == CHOOSE a \in {applicants[j] : j \in 1..Len(applicants)} : a.row_index = r

LinearWaits(n, interval) == [i \in 1..n |-> i * interval]

\* C1: a row's marker is written only after send_email returned success for
\* that applicant in the same process_account call, and at that applicant's
\* row_index; no update_cell is attempted for an applicant whose send failed
\* or who was skipped.
C1_WritesFollowSuccess ==
  /\ \A w \in calls.writes :
       /\ w.row \in calls.sendOk
       /\ w.row \notin (calls.sendFail \cup calls.noTemplate \cup calls.emptyBody \cup calls.dry)
       /\ w.col = MarkerColumn(headers)
  /\ pc = "mark" => msg.row \in calls.sendOk /\ msg.row = applicants[k].row_index

C1_SheetChange ==
  \A r \in RowIds :
    sheet'[r - 1] # sheet[r - 1] =>
      /\ pc = "mark" /\ ~dry_run
      /\ r = applicants[k].row_index
      /\ r \in calls.sendOk
      /\ [row |-> r, col |-> MarkerColumn(headers)] \in calls'.writes
      /\ MarkerOf(r)' = NowStr(now)

\* C1: in every state the update_cell calls made so far follow a successful
\* send to the same row, and every step that changes the sheet is such a write.
C1_MarkOnlyAfterSendSuccess == [](C1_WritesFollowSuccess) /\ [][C1_SheetChange]_vars

C1_Witness ==
  \E r1 \in RowIds, r2 \in RowIds :
    /\ r1 \in calls.sendOk /\ MarkerOf(r1) = NowStr(now)
    /\ r2 \in calls.sendFail /\ ~Marked(r2)

C2_MarkedState ==
  \A r \in RowIds :
    Marked(r) => /\ (lastFetch.ok => r \notin lastFetch.rows)
                 /\ emails[r] >= 1
                 /\ r \notin unmarkedSent
                 /\ (pc \in {"send", "mark"} /\ msg.row = r => MarkerOf(r) = NowStr(now))

C2_MarkedStep ==
  \A r \in RowIds :
    Marked(r) => /\ emails'[r] = emails[r]
                 /\ MarkerOf(r)' = MarkerOf(r)

SentUnmarked == {r \in DoneRows \cap calls.sendOk : ~Marked(r)}
SentMarked == {r \in DoneRows \cap calls.sendOk : Marked(r)}

\* the row's application timestamp is accepted and not before the cutoff
StillRecent(r) ==
  LET d == GetCol(headers, sheet[r - 1], "date")
  IN /\ \E i \in 1..Len(DateFormats) : d.k = DateFormats[i]
     /\ d.v >= Cutoff(now)

\* the counters of a real call after a send succeeded and its write-back failed
C3_Counters ==
  (InCall /\ ~dry_run) =>
    /\ result.update_failed = Cardinality(SentUnmarked)
    /\ result.sent = Cardinality(SentMarked)
    /\ result.failed = Cardinality(calls.sendFail)
    /\ calls.warned = SentUnmarked
    /\ SentUnmarked \subseteq unmarkedSent
    /\ \A r \in SentUnmarked : emails[r] >= 1

\* C3 (as claimed): a send whose write-back failed is counted in update_failed
\* only, with the warning, the marker stays empty, and the next run selects
\* that row again.
C3_UnmarkedRowSelectedNextRun ==
  /\ C3_Counters
  /\ lastFetch.ok => unmarkedSent \subseteq lastFetch.rows

\* C3 (amended): same counters, warning and empty marker; every later call
\* that reads the sheet while the row's timestamp is still inside the recency
\* window selects the row again, and a row that once got an email is never
\* skipped for its template, so a real run that reaches it sends again.
C3_UnmarkedRowSelectedWhileRecent ==
  /\ C3_Counters
  /\ lastFetch.ok => \A r \in unmarkedSent : StillRecent(r) => r \in lastFetch.rows
  /\ \A r \in calls.noTemplate \cup calls.emptyBody : emails[r] = 0

\* a row emailed in one call without its marker being written is emailed a
\* second time by the next call
C3_Witness ==
  \E r \in RowIds :
    /\ emails[r] = 2 /\ r \in calls.sendOk /\ r \in calls.warned
    /\ result.update_failed = 1 /\ result.sent = 0 /\ result.failed = 0

\* C4 (as claimed): a data row is a candidate iff its marker is empty, its
\* timestamp is in an accepted layout and lies between the cutoff and the
\* current run time, and its email address is not empty.
C4_SelectedIffInWindow ==
  lastFetch.ok =>
    lastFetch.rows =
      {r \in RowIds :
         LET row == sheet[r - 1]
             d == GetCol(headers, row, "date")
         IN /\ ~Truthy(GetCol(headers, row, "marker"))
            /\ \E i \in 1..Len(DateFormats) : d.k = DateFormats[i]
            /\ Cutoff(now) <= d.v /\ d.v <= now
            /\ Truthy(GetCol(headers, row, "email"))}

\* the sum of what the accounts that returned normally reported
RECURSIVE SumReturned(_)
SumReturned(log) ==
  IF log = <<>> THEN [sent |-> 0, skipped_no_template |-> 0, skipped_empty_body |-> 0,
                      failed |-> 0, update_failed |-> 0]
  ELSE LET rest == SumReturned(Tail(log))
       IN [f \in DOMAIN rest |-> rest[f] + Head(log).result[f]]

ReturnedOnly(log) == SelectSeq(log, LAMBDA e : e.status = "returned")

\* C5: an exception inside one account's processing does not stop the loop:
\* the accounts are finished in list order, the run ends only after the last
\* one, and the totals are the sum over the accounts that returned normally,
\* with nothing from an account that raised.
C5_AccountFailureIsolated ==
  /\ Len(acctLog) <= Len(accounts)
  /\ \A i \in 1..Len(acctLog) : acctLog[i].id = accounts[i]
  /\ pc \in {"loop", "applicant", "send", "mark"} => acct = Len(acctLog) + 1
  /\ totals = SumReturned(ReturnedOnly(acctLog))
  /\ (pc = "exit" /\ accounts # <<>>) => (summary /\ Len(acctLog) = Len(accounts))

\* the first account raised after sending an email, the second was still
\* processed, and the summary counts the second account only
C5_Witness ==
  /\ summary /\ Len(acctLog) = 2
  /\ acctLog[1].status = "raised" /\ acctLog[1].result.sent = 1
  /\ acctLog[2].status = "returned" /\ acctLog[2].result.sent = 1
  /\ totals = acctLog[2].result

\* C6 (as claimed): a run that has ended has printed the final summary,
\* whichever step failed.
C6_RunEndsWithSummary == pc = "exit" => summary

\* the classification of the finished rows, the same in both modes
ReachSend(r) == Known(ApplicantOfRow(r)) /\ BracketBody(ApplicantOfRow(r)) # <<>>

C7_DryRunState ==
  (InCall /\ dry_run) =>
    /\ pc = "applicant" /\ ev.call = "none" /\ msg = NoMsg
    /\ calls.sendOk = {} /\ calls.sendFail = {} /\ calls.writes = {} /\ calls.warned = {}
    /\ \A r \in RowIds : emails[r] = 0
    /\ calls.dry = {r \in DoneRows : ReachSend(r)}
    /\ calls.noTemplate = {r \in DoneRows : ~Known(ApplicantOfRow(r))}
    /\ result.sent = Cardinality(calls.dry)
    /\ result.failed = 0 /\ result.update_failed = 0

C7_RealRunState ==
  (InCall /\ ~dry_run) =>
    /\ calls.dry = {}
    /\ (calls.sendOk \cup calls.sendFail) \cap DoneRows = {r \in DoneRows : ReachSend(r)}
    /\ calls.noTemplate = {r \in DoneRows : ~Known(ApplicantOfRow(r))}

C7_DryRunStep == dry_run => (sheet' = sheet /\ emails' = emails)

\* C7: a dry run classifies every applicant as a real run does, never calls
\* send_email or update_cell, leaves the sheet unchanged, counts each
\* applicant that reaches the send step as sent, and keeps failed and
\* update_failed at 0.
C7_DryRunNoEffects ==
  [](C7_DryRunState /\ C7_RealRunState) /\ [][C7_DryRunStep]_vars

\* a dry run that counted an applicant as sent and skipped another
C7_Witness ==
  /\ dry_run /\ InCall /\ k > Len(applicants)
  /\ result.sent = 1 /\ calls.emptyBody # {}
  /\ \A r \in RowIds : ~Marked(r)

\* what a finished or pending send_email attempt looks like: n attempts so
\* far, the waits so far, and whether the call has returned
C8_SmtpCall(noRetry) ==
  ev.call = "smtp" =>
    /\ ev.n \in 1..SMTP_MAX_RETRIES
    /\ ev.outcome = "ok" => ev.ret = "True"
    /\ ev.outcome \in noRetry => ev.ret = "False"
    /\ ev.outcome \notin (noRetry \cup {"ok"}) =>
         IF ev.n < SMTP_MAX_RETRIES THEN ev.ret = "" ELSE ev.ret = "False"
    /\ ev.ret = "True" => ev.outcome = "ok"
    /\ slept = LinearWaits(IF ev.ret = "" THEN ev.n ELSE ev.n - 1, SMTP_RETRY_INTERVAL)
    /\ ev.ret = "" => (pc = "send" /\ attempt = ev.n)

\* C8 (as claimed): at most 3 attempts; only an authentication rejection or a
\* recipient rejection ends the call at once; every other failure, a dropped
\* connection included, is retried after attempt-number x SMTP_RETRY_INTERVAL
\* seconds until an attempt succeeds or the third one fails.
C8_EveryTransientRetried == C8_SmtpCall({"auth", "recipient"})

\* C8 (amended): at most 3 attempts; an authentication rejection, a recipient
\* rejection or a connection dropped by the server ends the call with failure
\* at once; every other failure is retried after attempt-number x
\* SMTP_RETRY_INTERVAL seconds until an attempt succeeds or the third fails.
C8_RetriesExceptRejectedOrDropped == C8_SmtpCall({"auth", "recipient", "disconnected"})

\* three failures in a row that are retried: waits of 5 and 10, then False
C8_Witness ==
  /\ ev.call = "smtp" /\ ev.outcome = "transient" /\ ev.n = 3 /\ ev.ret = "False"
  /\ slept = << SMTP_RETRY_INTERVAL, 2 * SMTP_RETRY_INTERVAL >>
  /\ msg.row \in calls.sendFail

\* C9: at most 3 update_cell attempts; only a rate-limit error is retried,
\* with attempt-number x SHEETS_API_RETRY_INTERVAL seconds between attempts;
\* any other error returns False at once; True exactly when an attempt
\* succeeded, False when the third attempt was rate-limited too.
C9_MarkAsSentRetries ==
  /\ ev.call = "update_cell" =>
       /\ ev.n \in 1..SHEETS_API_MAX_RETRIES
       /\ ev.outcome = "ok" <=> ev.ret = "True"
       /\ ev.outcome \in {"api_error", "error"} => ev.ret = "False"
       /\ ev.outcome = "rate_limit" =>
            IF ev.n < SHEETS_API_MAX_RETRIES THEN ev.ret = "" ELSE ev.ret = "False"
       /\ SubSeq(apiSlept, 1, ev.n - 1) = LinearWaits(ev.n - 1, SHEETS_API_RETRY_INTERVAL)
       /\ Len(apiSlept) = IF ev.outcome = "rate_limit" THEN ev.n ELSE ev.n - 1
       /\ ev.ret = "" => (pc = "mark" /\ attempt = ev.n)
       /\ ev.ret = "True" => MarkerOf(msg.row) = NowStr(now)
       /\ ev.ret = "False" => (~Marked(msg.row) /\ msg.row \in calls.warned)
  /\ pc = "mark" => attempt < SHEETS_API_MAX_RETRIES
  /\ MarkerColumn(headers) = 0 => (pc # "mark" /\ calls.writes = {})

\* rate-limited three times: False after the third attempt
C9_Witness ==
  /\ ev.call = "update_cell" /\ ev.outcome = "rate_limit" /\ ev.n = 3 /\ ev.ret = "False"
  /\ SubSeq(apiSlept, 1, 2) = << SHEETS_API_RETRY_INTERVAL, 2 * SHEETS_API_RETRY_INTERVAL >>
  /\ result.update_failed = 1

\* C10: select_template gives the body of the applicant's own age bracket
\* (unknown or <= 34: under 35; >= 35: over 35), None when that body is empty
\* and never the other bracket's body; the pipeline counts such an applicant
\* as skipped_empty_body and sends nothing to it.
C10_BracketNoFallback ==
  InCall =>
    /\ \A j \in 1..Len(applicants) :
         LET a == applicants[j]
         IN Known(a) =>
              select_template(a.age, templates[a.client_name]) =
                IF BracketBody(a) = <<>> THEN NoneStr ELSE Some(BracketBody(a))
    /\ calls.emptyBody = {r \in DoneRows : Known(ApplicantOfRow(r))
                                           /\ BracketBody(ApplicantOfRow(r)) = <<>>}
    /\ result.skipped_empty_body = Cardinality(calls.emptyBody)
    /\ calls.emptyBody \cap (calls.sendOk \cup calls.sendFail \cup calls.dry) = {}
    /\ \A r \in calls.emptyBody : emails[r] = 0
    /\ pc \in {"send", "mark"} =>
         /\ BracketBody(applicants[k]) # <<>>
         /\ msg.body = build_email_body(BracketBody(applicants[k]), applicants[k]).v

\* a 34-year-old whose client has only the 35-and-over body is skipped, and
\* a 35-year-old of the same client gets that body
C10_Witness ==
  \E r1 \in RowIds, r2 \in RowIds :
    /\ r1 \in calls.emptyBody
    /\ ApplicantOfRow(r1).age = Some(34)
    /\ registry[ApplicantOfRow(r1).client_name]["over_35"] # <<>>
    /\ r2 \in calls.sendOk
    /\ ApplicantOfRow(r2).age = Some(35)

\* what the two template dialects ask of a rendered body: \n becomes a line
\* break, $name / $title / $age / $client_name become the applicant's value,
\* any other $placeholder stays, {Column} becomes the column's value when the
\* applicant sheet has that column
SigilNames == {"name", "title", "age", "client_name"}

DialectRender(template, applicant) ==
  FlattenSeq([i \in 1..Len(template) |->
     LET tk == template[i]
     IN IF tk.t = "esc_n" THEN <<Tok("nl", "")>>
        ELSE IF tk.t = "sigil" /\ tk.x \in SigilNames /\ tk.x \in DOMAIN applicant
        THEN applicant[tk.x]
        ELSE IF tk.t = "brace" /\ "columns" \in DOMAIN applicant
                /\ tk.x \in DOMAIN applicant.columns
        THEN applicant.columns[tk.x]
        ELSE <<tk>>])

BodyReturned == fn = "build_email_body" /\ ret.done

\* C11 (as claimed): build_email_body replaces every recognised $placeholder
\* by the applicant's value, leaves unrecognised ones, and replaces {Column}
\* by the column's value when the column exists.
C11_BodySupportsBothDialects ==
  (BodyReturned /\ arg.template # <<>>) =>
    ret.v = Some(DialectRender(arg.template, arg.applicant))

\* C12 (as claimed): build_email_body returns an empty or absent body only
\* for an empty template.
C12_NonEmptyTemplateNonEmptyBody ==
  (BodyReturned /\ arg.template # <<>>) => (ret.v.some /\ ret.v.v # <<>>)

\* the six rules of the resolver, each with what it answers; hint is the
\* IMAP hint in lower case without surrounding white space
HintOf(a) == LowerStrip(a.imap_server)
KeysOf(map) == {map[i][1] : i \in 1..Len(map)}

ProviderHost(w) ==
  CASE w \in {"gmail", "google"} -> "smtp.gmail.com"
    [] w = "muumuu" -> "smtp.muumuu-mail.com"
    [] w = "onamae" -> "smtp.onamae.com"
    [] w = "lolipop" -> "smtp.lolipop.jp"

RuleMatches(n, a) ==
  LET hint == HintOf(a)
  IN CASE n = 1 -> Len(hint) = 1 /\ hint[1] \in KeysOf(IMAP_TO_SMTP_MAP)
       [] n = 2 -> \E key \in KeysOf(IMAP_TO_SMTP_MAP) : Contained(key, hint)
       [] n = 3 -> \E w \in {"gmail", "google", "muumuu", "onamae", "lolipop"} :
                     Contained(w, hint)
       [] n = 4 -> /\ \E w \in {"xserver", "xsrv"} : Contained(w, hint)
                   /\ a.email.at /\ a.email.domain # ""
       [] n = 5 -> a.email.at /\ LowerStr(a.email.domain) \in KeysOf(DOMAIN_TO_SMTP_MAP)
       [] n = 6 -> TRUE

RuleAnswers(n, a) ==
  LET hint == HintOf(a)
  IN CASE n = 1 -> {Lookup(IMAP_TO_SMTP_MAP, hint[1]).v}
       [] n = 2 -> {Lookup(IMAP_TO_SMTP_MAP, key).v :
                      key \in {x \in KeysOf(IMAP_TO_SMTP_MAP) : Contained(x, hint)}}
       [] n = 3 -> {<< ProviderHost(w), 587 >> :
                      w \in {x \in {"gmail", "google", "muumuu", "onamae", "lolipop"} :
                               Contained(x, hint)}}
       [] n = 4 -> {<< a.email.domain, 587 >>}
       [] n = 5 -> {Lookup(DOMAIN_TO_SMTP_MAP, LowerStr(a.email.domain)).v}
       [] n = 6 -> {<< "smtp.muumuu-mail.com", 587 >>}

FirstRule(a) == CHOOSE n \in 1..6 : RuleMatches(n, a) /\ \A m \in 1..(n - 1) : ~RuleMatches(m, a)

SmtpReturned == fn = "_resolve_smtp" /\ ret.done

LabelPlace(hdr, name) ==
  IF \E j \in 1..Len(hdr) : hdr[j] = Label(name)
  THEN CHOOSE j \in 1..Len(hdr) : hdr[j] = Label(name) /\ \A m \in 1..(j - 1) : hdr[m] # Label(name)
  ELSE 0

CellUnder(hdr, row, name) ==
  LET j == LabelPlace(hdr, name)
      c == IF j = 0 \/ j > Len(row) THEN Empty ELSE row[j]
  IN IF c.k = " " THEN Empty ELSE IF c.k = "padded" THEN Text(c.v) ELSE c

FirstHeader(v) ==
  LET hits == {i \in 1..Len(v) : i <= 5 /\ LabelPlace(v[i], "client") # 0}
  IN IF hits = {} THEN 0 ELSE CHOOSE i \in hits : \A j \in hits : i <= j

TemplatesReturned == fn = "get_mail_templates" /\ ret.done

\* C14: the header is the first of the first 5 rows holding the client-name
\* label; without one, or with no row after it, the registry is empty;
\* otherwise it has one entry per distinct non-empty normalized client name
\* of the rows after the header, with the subject / <=34 / >=35 cells of the
\* last such row, a column missing from the header reading as empty.
C14_RegistryLastRowWins ==
  TemplatesReturned =>
    LET h == FirstHeader(arg)
        after == IF h = 0 THEN {} ELSE (h + 1)..Len(arg)
        names == {CellUnder(arg[h], arg[i], "client") : i \in after} \ {Empty}
    IN IF h = 0 \/ after = {} THEN DOMAIN ret.v = {}
       ELSE /\ DOMAIN ret.v = names
            /\ \A n \in names :
                 LET last == CHOOSE i \in after :
                               /\ CellUnder(arg[h], arg[i], "client") = n
                               /\ \A j \in after :
                                    CellUnder(arg[h], arg[j], "client") = n => j <= i
                 IN ret.v[n] = [subject |-> CellUnder(arg[h], arg[last], "subject"),
                                under_35 |-> CellUnder(arg[h], arg[last], "under_35"),
                                over_35 |-> CellUnder(arg[h], arg[last], "over_35")]

\* a title row, then the header, then two rows of the same client (one
\* written with white space around the name) and a row of another: two
\* entries, the client's from its last row
C14_Witness ==
  /\ TemplatesReturned
  /\ FirstHeader(arg) = 2
  /\ Cardinality(DOMAIN ret.v) = 2
  /\ Text(1) \in DOMAIN ret.v
  /\ \E i \in 3..Len(arg), j \in 3..Len(arg) :
       /\ i < j
       /\ CellUnder(arg[2], arg[i], "client") = Text(1)
       /\ CellUnder(arg[2], arg[j], "client") = Text(1)
       /\ arg[i] # arg[j]
       /\ \A m \in (j + 1)..Len(arg) : CellUnder(arg[2], arg[m], "client") # Text(1)
       /\ ret.v[Text(1)].under_35 = CellUnder(arg[2], arg[j], "under_35")
       /\ ret.v[Text(1)].under_35 # CellUnder(arg[2], arg[i], "under_35")

\* a header that is only in the sixth row is not found
C14_WitnessOutsideWindow ==
  /\ TemplatesReturned
  /\ Len(arg) = 6 /\ FirstHeader(arg) = 0
  /\ LabelPlace(arg[6], "client") # 0
  /\ DOMAIN ret.v = {}

\* a step in which process_account returns before its loop
EarlyReturn ==
  /\ pc = "loop" /\ pc' = "loop"
  /\ Len(acctLog') = Len(acctLog) + 1
  /\ acctLog'[Len(acctLog')].status = "returned"

C15_EarlyStep ==
  EarlyReturn =>
    LET res == acctLog'[Len(acctLog')].result
        n == IF lastFetch'.ok THEN Len(get_unsent_applicants(headers, sheet, now)) ELSE 0
    IN /\ sheet' = sheet /\ emails' = emails
       /\ ev' = NoEv /\ calls' = NoCalls /\ msg' = NoMsg
       /\ IF n = 0
          THEN /\ res = [sent |-> 0, skipped_no_template |-> 0, skipped_empty_body |-> 0,
                         failed |-> 0, update_failed |-> 0]
               /\ ~lastFetch'.tpl
          ELSE /\ res = [sent |-> 0, skipped_no_template |-> n, skipped_empty_body |-> 0,
                         failed |-> 0, update_failed |-> 0]
               /\ lastFetch'.tpl

\* the loop is entered only with candidates and a non-empty registry
C15_LoopNeedsBoth == InCall => (applicants # <<>> /\ DOMAIN templates # {})

\* C15: process_account ends before its loop, with no send and no sheet
\* write, in two cases: no candidates (or the sheet unreadable), with all
\* counters 0 and the template registry not fetched; an empty registry, with
\* skipped_no_template = number of candidates and the other counters 0.
C15_EarlyTermination == [](C15_LoopNeedsBoth) /\ [][C15_EarlyStep]_vars

\* two candidates and an empty registry: both counted as no template
C15_Witness ==
  /\ pc = "loop" /\ acctLog # <<>>
  /\ lastFetch.ok /\ lastFetch.tpl /\ Cardinality(lastFetch.rows) = 2
  /\ acctLog[Len(acctLog)].status = "returned"
  /\ acctLog[Len(acctLog)].result.skipped_no_template = 2
  /\ acctLog[Len(acctLog)].result.sent = 0
  /\ \A r \in RowIds : emails[r] = 0 /\ ~Marked(r)

CounterSum(res) ==
  res.sent + res.skipped_no_template + res.skipped_empty_body + res.failed
    + res.update_failed

\* inside the loop: the candidates before position k are each counted once,
\* send_email has been called for candidates up to position k only, and no
\* candidate has both a successful and a failed call
C16_LoopState ==
  InCall =>
    /\ k \in 1..(Len(applicants) + 1)
    /\ CounterSum(result) = k - 1
    /\ \A i \in 1..Len(applicants), j \in 1..Len(applicants) :
         i < j => applicants[i].row_index < applicants[j].row_index
    /\ calls.sendOk \cap calls.sendFail = {}
    /\ (calls.sendOk \cup calls.sendFail) \subseteq
         {applicants[j].row_index : j \in 1..(IF pc = "mark" THEN k ELSE k - 1)}
    /\ pc = "send" => /\ k <= Len(applicants)
                      /\ msg.row = applicants[k].row_index
                      /\ msg.row \notin (calls.sendOk \cup calls.sendFail)
    /\ \A r \in RowIds : emails[r] <= 1

\* the loop only moves forward, and a normal return with candidates has
\* counted every one of them
C16_LoopStep ==
  /\ (InCall /\ InCall') => (k' = k \/ k' = k + 1)
  /\ (InCall /\ pc' = "loop" /\ acctLog'[Len(acctLog')].status = "returned") =>
       /\ k = Len(applicants) + 1
       /\ CounterSum(acctLog'[Len(acctLog')].result) = Len(applicants)
  /\ (EarlyReturn /\ lastFetch'.ok /\ lastFetch'.rows # {}) =>
       CounterSum(acctLog'[Len(acctLog')].result) = Cardinality(lastFetch'.rows)

\* C16: when process_account returns normally with candidates, the five
\* counters add up to the number of candidates, each candidate being counted
\* once, and send_email is called at most once per candidate, in row order.
C16_CountersPartitionCandidates == [](C16_LoopState) /\ [][C16_LoopStep]_vars

\* two candidates done, one sent and marked, one sent without its marker
C16_Witness ==
  /\ InCall /\ Len(applicants) = 2 /\ k = 3
  /\ result.sent = 1 /\ result.update_failed = 1
  /\ CounterSum(result) = 2

\* the rows the first run selected
FirstRows == {applicants[j].row_index : j \in 1..Len(applicants)}

\* a row's timestamp and email make it a candidate, whatever its marker
Selectable(r) == StillRecent(r) /\ Truthy(GetCol(headers, sheet[r - 1], "email"))

Delivered(r) ==
  (IF r \in calls.sendOk THEN 1 ELSE 0) + (IF r \in other.sent THEN 1 ELSE 0)

\* C17: with two overlapping runs nothing but a marker already written at
\* the time of a run's read keeps a row out of its candidates: a row both
\* runs read unmarked is selected by both, every successful send_email of
\* either run is a delivered email, and a row can so get two emails.
C17_OverlappingRunsBothSelect ==
  /\ other.pc # "off" =>
       other.rows = {r \in RowIds : Selectable(r) /\ r \notin other.seen}
  /\ (InCall /\ other.pc # "off") =>
       \A r \in RowIds :
         /\ (r \in FirstRows /\ r \notin other.seen) => r \in other.rows
         /\ (r \in other.rows /\ r \notin FirstRows) => (Marked(r) /\ r \in other.sent)
         /\ r \in other.seen => (r \in calls.sendOk /\ r \notin other.sent)
  /\ InCall => \A r \in RowIds : emails[r] = Delivered(r)

\* both runs read the row unmarked and both sent to it; its marker is set
\* only afterwards
C17_Witness ==
  \E r \in RowIds :
    /\ InCall /\ r \in FirstRows /\ r \in other.rows /\ r \notin other.seen
    /\ r \in calls.sendOk /\ r \in other.sent
    /\ [row |-> r, col |-> MarkerColumn(headers)] \in calls.writes
    /\ Marked(r) /\ other.pc = "done" /\ r \notin unmarkedSent
    /\ emails[r] = 2

====
